---- MODULE Spec2Model ----
(***************************************************************************)
(* Sliding-window Euclidean distances (cuseries.ED): the dispatch layer    *)
(* sdist / mdist / zdist, the transform-domain engine fft_sdist /          *)
(* fft_mdist / fft_zdist, the direct reduction kernels and the helpers.    *)
(*                                                                         *)
(* Numbers are exact rationals <<num, den>> in lowest terms, den > 0, so   *)
(* every statement below is about the algorithms in exact arithmetic.      *)
(* sqrt is exact on squares of rationals; calls are drawn from inputs on   *)
(* which every radicand the code takes is such a square (Representable).   *)
(*                                                                         *)
(* Spec:        one call of sdist, mdist or zdist, from validation to      *)
(*              return, with the launch configuration of the entry point.  *)
(* SpecSession: a caller making one call after another.                    *)
(* SpecKernel:  the direct kernels under any launch configuration, with    *)
(*              fair scheduling of the warps.                              *)
(* SpecShuffle: one warp's shuffle reduction, round by round.              *)
(***************************************************************************)
EXTENDS Integers, Sequences, FiniteSets, TLC

----------------------------------------------------------------------------
(* Exact rational arithmetic: the float64 / dtype arithmetic of cupy and   *)
(* numba, without rounding.                                                *)

Abs(x) == IF x < 0 THEN -x ELSE x

RECURSIVE GCD(_, _)
GCD(a, b) == IF b = 0 THEN a ELSE GCD(b, a % b)

(* n/d in lowest terms; x/0 is <<0, 0>>, which is no number (it is also   *)
(* what an uninitialised array entry holds)                                *)
Rat(n, d) ==
    IF d = 0 THEN <<0, 0>>
    ELSE LET g == GCD(Abs(n), Abs(d))
             s == IF d < 0 THEN -1 ELSE 1
         IN  <<(s * n) \div g, (s * d) \div g>>

I(n) == <<n, 1>>
RAdd(a, b) == Rat(a[1] * b[2] + b[1] * a[2], a[2] * b[2])
RSub(a, b) == Rat(a[1] * b[2] - b[1] * a[2], a[2] * b[2])
RMul(a, b) == Rat(a[1] * b[1], a[2] * b[2])
RDiv(a, b) == Rat(a[1] * b[2], a[2] * b[1])
RLt(a, b) == a[1] * b[2] < b[1] * a[2]
RLe(a, b) == a[1] * b[2] <= b[1] * a[2]
RSq(a) == RMul(a, a)
RMax(a, b) == IF RLt(a, b) THEN b ELSE a

IsSquareInt(n) == \E r \in 0..n : r * r = n
ISqrt(n) == CHOOSE r \in 0..n : r * r = n
IsSquare(a) == a[1] >= 0 /\ IsSquareInt(a[1]) /\ IsSquareInt(a[2])
RSqrt(a) == <<ISqrt(a[1]), ISqrt(a[2])>>

----------------------------------------------------------------------------
(* Arrays are sequences of rationals; x[i] of the code is x[i + 1] here.   *)

(* the sum of f[lo..hi]; exact addition is associative, so the sum is     *)
(* taken by halves, which keeps the evaluation shallow                     *)
RECURSIVE SumOver(_, _, _)
SumOver(f, lo, hi) ==
    IF lo > hi THEN I(0)
    ELSE IF lo = hi THEN f[lo]
    ELSE LET mid == (lo + hi) \div 2
         IN  RAdd(SumOver(f, lo, mid), SumOver(f, mid + 1, hi))

Sum(x) == SumOver(x, 1, Len(x))
Mean(x) == RDiv(Sum(x), I(Len(x)))
Square(x) == [i \in 1..Len(x) |-> RSq(x[i])]
mnorm(x) == [i \in 1..Len(x) |-> RSub(x[i], Mean(x))]

(* cupy.std(x, ddof=0): sqrt(mean(|x - mean(x)|^2)), divisor len(x).       *)
Var(x) == Mean(Square(mnorm(x)))
Std(x) == RSqrt(Var(x))

(* faulty variants of znorm, for sensitivity runs: the divisor             *)
(* min(std, epsilon), and the divisor std with no floor                    *)
znormMin(x, epsilon) ==
    LET d == IF RLt(Std(x), epsilon) THEN Std(x) ELSE epsilon
    IN  [i \in 1..Len(x) |-> RDiv(RSub(x[i], Mean(x)), d)]

znormNoFloor(x, epsilon) ==
    [i \in 1..Len(x) |-> RDiv(RSub(x[i], Mean(x)), Std(x))]

(* (x-cp.mean(x))/max(cp.std(x, ddof=0), epsilon) *)
znorm(x, epsilon) ==
    [i \in 1..Len(x) |-> RDiv(RSub(x[i], Mean(x)), RMax(Std(x), epsilon))]

----------------------------------------------------------------------------
(* Direct reduction kernels (numba.cuda): one warp of 32 lanes per window. *)

WarpSize == 32
Lanes == 0..(WarpSize - 1)
(* faulty variant, for sensitivity runs: the last offset repeated *)
DeltasRepeat == <<16, 8, 4, 2, 2>>

(* for delta in [16, 8, 4, 2, 1] *)
Deltas == <<16, 8, 4, 2, 1>>

RECURSIVE Xor(_, _)
Xor(a, b) ==
    IF a = 0 /\ b = 0 THEN 0
    ELSE (IF a % 2 = b % 2 THEN 0 ELSE 1) + 2 * Xor(a \div 2, b \div 2)

(* cuda.shfl_down_sync(0xFFFFFFFF, v, delta): lane l reads lane l + delta; *)
(* a lane whose source is outside the warp reads its own value.            *)
DownSrc(l, delta) == IF l + delta < WarpSize THEN l + delta ELSE l

(* cuda.shfl_xor_sync(0xFFFFFFFF, v, delta): lane l reads lane l ^ delta.  *)
XorSrc(l, delta) == Xor(l, delta)

(* one round "accum += shfl(accum, delta)", all 32 lanes in lockstep       *)
DownRound(acc, delta) == [l \in DOMAIN acc |-> RAdd(acc[l], acc[DownSrc(l, delta)])] @@ <<>>
XorRound(acc, delta) == [l \in DOMAIN acc |-> RAdd(acc[l], acc[XorSrc(l, delta)])] @@ <<>>

(* "for delta in [16, 8, 4, 2, 1]: accum += shfl(accum, delta)"            *)
ReduceDown(acc) ==
    DownRound(DownRound(DownRound(DownRound(DownRound(acc,
        Deltas[1]), Deltas[2]), Deltas[3]), Deltas[4]), Deltas[5])

ReduceXor(acc) ==
    XorRound(XorRound(XorRound(XorRound(XorRound(acc,
        Deltas[1]), Deltas[2]), Deltas[3]), Deltas[4]), Deltas[5])

(* "for index in range(laneIdx, Q.shape[0], 32): accum += t[index]"        *)
RECURSIVE RangeSum(_, _, _)
RangeSum(t, index, stop) ==
    IF index >= stop THEN I(0)
    ELSE RAdd(t[index], RangeSum(t, index + WarpSize, stop))

RangeSet(start, stop) == {i \in start..(stop - 1) : (i - start) % WarpSize = 0}

(* per-lane accumulators after the strided loop of one position *)
sdistPartial(Qk, S, p) ==
    [l \in Lanes |->
        RangeSum([i \in 0..(Len(Qk) - 1) |-> RSq(RSub(Qk[i + 1], S[p + i + 1]))],
                 l, Len(Qk))] @@ <<>>

windowPartial(Qk, S, p) ==
    [l \in Lanes |->
        RangeSum([i \in 0..(Len(Qk) - 1) |-> S[p + i + 1]], l, Len(Qk))] @@ <<>>

windowSqPartial(Qk, S, p) ==
    [l \in Lanes |->
        RangeSum([i \in 0..(Len(Qk) - 1) |-> RSq(S[p + i + 1])], l, Len(Qk))] @@ <<>>

(* accum of every lane when the position's reduction is over *)
sdist_lanes(Qk, S, p) == ReduceDown(sdistPartial(Qk, S, p))

mdist_lanes(Qk, S, p) ==
    LET m == Len(Qk)
        accum_ == ReduceXor(windowPartial(Qk, S, p))
        mean == [l \in DOMAIN accum_ |-> RDiv(accum_[l], I(m))] @@ <<>>
        second == [l \in DOMAIN mean |->
            RangeSum([i \in 0..(m - 1) |->
                         RSq(RAdd(RSub(Qk[i + 1], S[p + i + 1]), mean[l]))],
                     l, m)] @@ <<>>
    IN  ReduceDown(second)

(* sigma = sqrt(sigma) if sigma > 0.0 else epsilon *)
kernelSigma(v, epsilon) == IF RLt(I(0), v) THEN RSqrt(v) ELSE epsilon

zdist_lanes(Qk, S, p, epsilon) ==
    LET m == Len(Qk)
        accum1 == ReduceXor(windowPartial(Qk, S, p))
        accum2 == ReduceXor(windowSqPartial(Qk, S, p))
        mean == [l \in DOMAIN accum1 |-> RDiv(accum1[l], I(m))] @@ <<>>
        var == [l \in DOMAIN accum2 |-> RSub(RDiv(accum2[l], I(m)), RSq(mean[l]))] @@ <<>>
        sigma == [l \in DOMAIN var |-> kernelSigma(var[l], epsilon)] @@ <<>>
        second == [l \in DOMAIN sigma |->
            RangeSum([i \in 0..(m - 1) |->
                         RSq(RSub(Qk[i + 1],
                                  RDiv(RSub(S[p + i + 1], mean[l]), sigma[l])))],
                     l, m)] @@ <<>>
    IN  ReduceDown(second)

kernel_lanes(op, Qk, S, p, epsilon) ==
    IF op = "sdist" THEN sdist_lanes(Qk, S, p)
    ELSE IF op = "mdist" THEN mdist_lanes(Qk, S, p)
    ELSE zdist_lanes(Qk, S, p, epsilon)

----------------------------------------------------------------------------------------------------------------------------------------
(* Transform-domain engine.  A device array is [len, have, at]: its length *)
(* len, and its elements at[0..have-1].  Only the leading elements that    *)
(* the returned slice depends on are kept (have <= len); the zero padding  *)
(* past them is never read by any returned entry.  len = -1 stands for the *)
(* ValueError cupy raises when operands cannot be broadcast together.      *)

alignment == 10000

Min(a, b) == IF a < b THEN a ELSE b
Max(a, b) == IF a < b THEN b ELSE a

Arr(n, h, f) == [len |-> n, have |-> h, at |-> f @@ <<>>]
Failed == Arr(-1, 0, <<>>)

(* a[start:] for start >= 0 *)
SliceFrom(a, start) ==
    LET s == Min(start, a.len)
        h == Max(a.have - s, 0)
    IN  IF a.len < 0 THEN Failed
        ELSE Arr(a.len - s, h, [i \in 0..(h - 1) |-> a.at[i + s]])

(* a[:stop]: a negative stop counts from the end, stop = 0 is the empty    *)
(* slice                                                                   *)
SliceTo(a, stop) ==
    LET e == IF stop < 0 THEN a.len + stop ELSE stop
        n == Max(Min(e, a.len), 0)
        h == Min(n, a.have)
    IN  IF a.len < 0 THEN Failed ELSE Arr(n, h, [i \in 0..(h - 1) |-> a.at[i]])

(* numpy broadcasting of two rank-1 operands *)
BroadcastLen(la, lb) ==
    IF la < 0 \/ lb < 0 THEN -1
    ELSE IF la = lb THEN la
    ELSE IF la = 1 THEN lb
    ELSE IF lb = 1 THEN la
    ELSE -1

BHave(a, b) ==
    IF a.len = b.len THEN Min(a.have, b.have)
    ELSE IF a.len = 1 THEN b.have ELSE a.have

BAt(a, n, i) == IF a.len = 1 /\ n # 1 THEN a.at[0] ELSE a.at[i]

Sub(a, b) ==
    LET n == BroadcastLen(a.len, b.len)
    IN  IF n < 0 THEN Failed
        ELSE Arr(n, BHave(a, b),
                 [i \in 0..(BHave(a, b) - 1) |-> RSub(BAt(a, n, i), BAt(b, n, i))])

Add(a, b) ==
    LET n == BroadcastLen(a.len, b.len)
    IN  IF n < 0 THEN Failed
        ELSE Arr(n, BHave(a, b),
                 [i \in 0..(BHave(a, b) - 1) |-> RAdd(BAt(a, n, i), BAt(b, n, i))])

Mul(a, b) ==
    LET n == BroadcastLen(a.len, b.len)
    IN  IF n < 0 THEN Failed
        ELSE Arr(n, BHave(a, b),
                 [i \in 0..(BHave(a, b) - 1) |-> RMul(BAt(a, n, i), BAt(b, n, i))])

(* scalar * a, scalar + a *)
Scale(c, a) ==
    IF a.len < 0 THEN Failed
    ELSE Arr(a.len, a.have, [i \in 0..(a.have - 1) |-> RMul(c, a.at[i])])

Shift(c, a) ==
    IF a.len < 0 THEN Failed
    ELSE Arr(a.len, a.have, [i \in 0..(a.have - 1) |-> RAdd(c, a.at[i])])

(* n = (len(S)+alignment-1)//alignment*alignment *)
PadLen(S) == ((Len(S) + alignment - 1) \div alignment) * alignment

(* iS = zeros(n); iS[:len(S)] = S      (likewise E = zeros(n); E[:m] = Q)  *)
Padded(x, n) ==
    Arr(n, Min(n, Len(x)),
        [i \in 0..(Min(n, Len(x)) - 1) |-> IF i < Len(x) THEN x[i + 1] ELSE I(0)])

(* cumsum(x, Kahan=0): y[0] = 0, y[1:] = inclusive running sum of x        *)
cumsum(x) == Arr(x.len + 1, x.have + 1, [i \in 0..x.have |-> SumOver(x.at, 0, i - 1)])

(* Y[+m:] - Y[:-m] *)
Windowed(Y, m) == Sub(SliceFrom(Y, m), SliceTo(Y, -m))

(* irfft(rfft(E).conj() * rfft(iS), n=n): the circular cross-correlation   *)
(* R[k] = sum_i E[i] * iS[(i+k) mod n]; E is zero from index m on, so the  *)
(* sum stops at m.                                                         *)
CorrSum(E, iS, k, m) ==
    SumOver([i \in 0..(m - 1) |-> RMul(E.at[i], iS.at[(i + k) % iS.len])], 0, m - 1)

Correlation(E, iS, m) ==
    LET h == IF iS.have = iS.len THEN iS.len ELSE Max(iS.have - m + 1, 0)
    IN  Arr(iS.len, h, [k \in 0..(h - 1) |-> CorrSum(E, iS, k, m)])

SumSquares(Q) == Sum(Square(Q))

fft_sdist(Q, S) ==
    LET m == Len(Q)
        n == PadLen(S)
        iS == Padded(S, n)
        Y == Windowed(cumsum(Mul(iS, iS)), m)
        R == Correlation(Padded(Q, n), iS, m)
    IN  SliceTo(Add(Shift(SumSquares(Q), Scale(I(-2), SliceTo(R, -m + 1))), Y),
                Len(S) - m + 1)

fft_mdist(Q0, S) ==
    LET m == Len(Q0)
        Q == mnorm(Q0)
        n == PadLen(S)
        iS == Padded(S, n)
        X == Windowed(cumsum(iS), m)
        Y == Windowed(cumsum(Mul(iS, iS)), m)
        Z == Sub(Y, Scale(<<1, m>>, Mul(X, X)))
        R == Correlation(Padded(Q, n), iS, m)
    IN  SliceTo(Add(Shift(SumSquares(Q), Scale(I(-2), SliceTo(R, -m + 1))), Z),
                Len(S) - m + 1)

(* Z = sqrt(maximum(Y/m - square(X/m), 0)) *)
WindowStd(X, Y, m) ==
    LET n == BroadcastLen(X.len, Y.len)
    IN  IF n < 0 THEN Failed
        ELSE Arr(n, BHave(X, Y), [i \in 0..(BHave(X, Y) - 1) |->
                 RSqrt(RMax(RSub(RDiv(BAt(Y, n, i), I(m)),
                                 RSq(RDiv(BAt(X, n, i), I(m)))),
                            I(0)))])

(* F = where(Z > 0, 2*(m - R[:-m+1]/Z), m*ones_like(Z)) *)
Where(Z, R, m) ==
    LET n == BroadcastLen(Z.len, R.len)
    IN  IF n < 0 THEN Failed
        ELSE Arr(n, BHave(Z, R), [i \in 0..(BHave(Z, R) - 1) |->
                 IF RLt(I(0), BAt(Z, n, i))
                 THEN RMul(I(2), RSub(I(m), RDiv(BAt(R, n, i), BAt(Z, n, i))))
                 ELSE I(m)])

fft_zdist(Q0, S, epsilon) ==
    LET m == Len(Q0)
        Q == znorm(Q0, epsilon)
        n == PadLen(S)
        iS == Padded(S, n)
        X == Windowed(cumsum(iS), m)
        Y == Windowed(cumsum(Mul(iS, iS)), m)
        Z == WindowStd(X, Y, m)
        R == Correlation(Padded(Q, n), iS, m)
    IN  SliceTo(Where(Z, SliceTo(R, -m + 1), m), Len(S) - m + 1)

(* the returned device array as a sequence *)
ToSeq(a) == [i \in 1..a.len |-> a.at[i - 1]]

----------------------------------------------------------------------------
(* Calls of the dispatch layer.  A cupy array is [dtype, shape, data]; the *)
(* data of a rank-1 array of length n is a sequence of n rationals.        *)

MaxN == 3
LaunchBlock == 64
LaunchGrid == 80 * 32

Vals == {I(0), I(1)}
Vec(x) == [dtype |-> "float64", shape |-> <<Len(x)>>, data |-> x]
SeqsUpTo(k) == UNION {[1..j -> Vals] : j \in 1..k}

Ops == {"sdist", "mdist", "zdist"}
Epsilons == {<<1, 4>>, <<1, 2>>, I(1)}

CallOf(o, q, s, md, e) == [op |-> o, Q |-> q, S |-> s, mode |-> md, epsilon |-> e]

(* well-typed rank-1 calls over small values: every query and stream       *)
(* length 1..MaxN (so m = 1, m = n and m > n all occur)                    *)
GridCalls ==
    {CallOf(o, Vec(q), Vec(s), md, e) :
        o \in {"sdist", "mdist"}, q \in SeqsUpTo(MaxN), s \in SeqsUpTo(MaxN),
        md \in {"fft", "naive"}, e \in {I(1)}}
    \cup
    {CallOf("zdist", Vec(q), Vec(s), md, e) :
        q \in SeqsUpTo(MaxN), s \in SeqsUpTo(MaxN),
        md \in {"fft", "naive"}, e \in Epsilons \cup {I(0)}}

(* the same with larger values *)
MixedCalls ==
    {CallOf(o, Vec(q), Vec(s), md, e) :
        o \in Ops,
        q \in {<<I(0), I(2)>>, <<I(1), I(3)>>, <<I(5), I(2)>>},
        s \in {<<I(2), I(0), I(2)>>, <<I(1), I(3), I(5)>>, <<I(3), I(3), I(1), I(5)>>},
        md \in {"fft", "naive"}, e \in Epsilons}

(* the scenario Query = [1,2,3], Stream = [1,2,3,1,2,3,9,9,9], a query of  *)
(* more than one warp's worth of elements, and length-4 z-distance inputs  *)
Scenario == CallOf("sdist", Vec(<<I(1), I(2), I(3)>>),
                   Vec(<<I(1), I(2), I(3), I(1), I(2), I(3), I(9), I(9), I(9)>>),
                   "direct", I(1))

LongQ == [i \in 1..(WarpSize + 2) |-> I(i % 3)]
LongS == [i \in 1..(WarpSize + 3) |-> I((i * i) % 4)]
LongCalls == {CallOf(o, Vec(LongQ), Vec(LongS), md, I(1)) :
                 o \in {"sdist", "mdist"}, md \in {"fft", "naive"}}

WideCalls == {CallOf("zdist", Vec(q), Vec(s), md, e) :
                 q \in {<<I(0), I(0), I(1), I(1)>>, <<I(2), I(0), I(0), I(2)>>},
                 s \in {<<I(0), I(0), I(2), I(2), I(0), I(0)>>, <<I(3), I(3), I(3), I(3)>>},
                 md \in {"fft", "naive"}, e \in Epsilons}

(* calls that break an input contract in every combination, and calls with *)
(* mode strings other than "fft"                                           *)
QVariants ==
    { Vec(<<I(0), I(1)>>), Vec(<<I(1), I(1)>>), Vec(<<I(0), I(1), I(0), I(1)>>),
      [dtype |-> "float32", shape |-> <<2>>, data |-> <<I(0), I(1)>>],
      [dtype |-> "float64", shape |-> <<1, 2>>, data |-> <<I(0), I(1)>>],
      [dtype |-> "float64", shape |-> <<>>, data |-> <<I(1)>>] }
SVariants ==
    { Vec(<<I(1), I(0), I(2)>>),
      [dtype |-> "float32", shape |-> <<3>>, data |-> <<I(1), I(0), I(2)>>],
      [dtype |-> "float64", shape |-> <<3, 1>>, data |-> <<I(1), I(0), I(2)>>] }
ContractCalls ==
    {CallOf(o, q, s, md, e) :
        o \in Ops, q \in QVariants, s \in SVariants,
        md \in {"fft", "naive", "transform"}, e \in {I(1), I(0), I(-1)}}

Rank(a) == Len(a.shape)
IsVec(a) == Rank(a) = 1

(* every sqrt the call takes is of the square of a rational *)
Window(S, k, m) == [i \in 1..m |-> S[k + i]]
Representable(c) ==
    c.op = "zdist" =>
        /\ IsSquare(Var(c.Q.data))
        /\ (IsVec(c.Q) /\ IsVec(c.S)) =>
              \A k \in 0..(Len(c.S.data) - Len(c.Q.data)) :
                  IsSquare(Var(Window(c.S.data, k, Len(c.Q.data))))

Calls == {c \in GridCalls \cup MixedCalls \cup {Scenario} \cup LongCalls \cup WideCalls \cup ContractCalls :
             Representable(c)}

----------------------------------------------------------------------------
(* State *)

VARIABLES
    pc,        \* where the current call is: idle, called, validated,
               \* allocated, launched, computed, returned, raised
    call,      \* the arguments of the current call
    err,       \* the exception the call raised ("" if none)
    Qk,        \* the query handed to the kernel (Q, mnorm(Q) or znorm(Q))
    Z,         \* the output array (Unwritten entries are uninitialised)
    events,    \* device work issued by the call, in order
    gridDim,   \* launch configuration of the running kernel
    blockDim,
    position,  \* loop variable of every warp whose range is not empty
    wlog,      \* <<k, warp, lane, nth>> for every store out[k] = accum, the
               \* nth store to out[k]
    readS,     \* indices of S and of Q the kernel has read
    readQ,
    errLog,    \* <<error, contracts violated>> of every call rejected so far
    accum,     \* a warp's 32 accumulators during a shuffle reduction
    partial,   \* the accumulators before the reduction
    shfl,      \* which reduction: "down" or "xor"
    round,     \* number of shuffle rounds done
    scanArg,   \* the arguments [x, Kahan] of the outermost cumsum call
    stack,     \* the frames [x, Kahan, y, at] of the cumsum calls in progress
    ret,       \* what the outermost cumsum call returned
    scanErr,   \* the exception cumsum raised ("" if none)
    ncalls     \* number of recursive cumsum calls made

vars == <<pc, call, err, Qk, Z, events, gridDim, blockDim, position, wlog,
          readS, readQ, errLog, accum, partial, shfl, round,
          scanArg, stack, ret, scanErr, ncalls>>

kernelVars == <<gridDim, blockDim, position, wlog, readS, readQ>>
shuffleVars == <<accum, partial, shfl, round>>
scanVars == <<scanArg, stack, ret, scanErr, ncalls>>

Unwritten == <<0, 0>>
NoCall == CallOf("", Vec(<<>>), Vec(<<>>), "", I(0))

Idle ==
    /\ pc = "idle" /\ call = NoCall /\ err = "" /\ Qk = <<>> /\ Z = <<>>
    /\ events = <<>> /\ gridDim = 0 /\ blockDim = 0 /\ position = <<>>
    /\ wlog = {} /\ readS = {} /\ readQ = {} /\ errLog = {}

NoShuffle == accum = <<>> /\ partial = <<>> /\ shfl = "" /\ round = 0

NoScan ==
    /\ scanArg = [x |-> <<>>, Kahan |-> 0] /\ stack = <<>> /\ ret = <<>>
    /\ scanErr = "" /\ ncalls = 0

Init == Idle /\ NoShuffle /\ NoScan

----------------------------------------------------------------------------
(* Dispatch layer: sdist, mdist, zdist *)

m_(c) == Len(c.Q.data)
n_(c) == Len(c.S.data)

(* assert(Q.dtype == S.dtype) *)
SameDtype(c) == c.Q.dtype = c.S.dtype

(* faulty variant, for sensitivity runs: the lengths are not compared *)
ShapeOkNoOrder(c) == Rank(c.Q) = Rank(c.S) /\ Rank(c.S) = 1

(* assert(len(Q.shape) == len(S.shape) == 1 and Q.shape[0] <= S.shape[0]) *)
ShapeOk(c) ==
    /\ Rank(c.Q) = Rank(c.S)
    /\ Rank(c.S) = 1
    /\ c.Q.shape[1] <= c.S.shape[1]

(* assert(epsilon > 0) *)
EpsilonOk(c) == RLt(I(0), c.epsilon)

(* assert(cp.std(Q, ddof=0) > 0) *)
QueryOk(c) == RLt(I(0), Std(c.Q.data))

(* the asserts of the entry point, in order: TRUE iff none fails *)
Validates(c) ==
    IF c.op = "zdist"
    THEN EpsilonOk(c) /\ SameDtype(c) /\ ShapeOk(c) /\ QueryOk(c)
    ELSE SameDtype(c) /\ ShapeOk(c)

(* the input contracts a call breaks, as the interface names them *)
Violations(c) ==
    (IF c.Q.dtype # c.S.dtype THEN {"TypeMismatch"} ELSE {})
    \cup (IF Rank(c.Q) # 1 \/ Rank(c.S) # 1 \/ m_(c) > n_(c)
          THEN {"ShapeViolation"} ELSE {})
    \cup (IF c.op = "zdist" /\ RLe(c.epsilon, I(0)) THEN {"InvalidEpsilon"} ELSE {})
    \cup (IF c.op = "zdist" /\ Var(c.Q.data) = I(0) THEN {"DegenerateQuery"} ELSE {})

Begin(c) ==
    /\ call' = c /\ err' = "" /\ Qk' = <<>> /\ Z' = <<>> /\ events' = <<>>
    /\ gridDim' = 0 /\ blockDim' = 0 /\ position' = <<>>
    /\ wlog' = {} /\ readS' = {} /\ readQ' = {}
    /\ UNCHANGED <<shuffleVars, scanVars>>

Call(c) ==
    /\ pc = "idle"
    /\ pc' = "called"
    /\ Begin(c)
    /\ UNCHANGED errLog

Reject ==
    /\ pc = "called"
    /\ ~Validates(call)
    /\ pc' = "raised"
    /\ err' = "AssertionError"
    /\ errLog' = errLog \cup {<<"AssertionError", Violations(call)>>}
    /\ UNCHANGED <<call, Qk, Z, events, kernelVars, shuffleVars, scanVars>>

Accept ==
    /\ pc = "called"
    /\ Validates(call)
    /\ pc' = "validated"
    /\ UNCHANGED <<call, err, Qk, Z, events, kernelVars, errLog, shuffleVars, scanVars>>

(* faulty variant, for sensitivity runs: every mode but "naive" is sent   *)
(* to the transform engine                                                 *)
UsesTransformUnlessNaive(md) == md # "naive"

(* if mode == "fft": Z = fft_?dist(Q, S[, epsilon]) *)
UsesTransform(md) == md = "fft"

(* the engine's own asserts (dtype, epsilon > 0) repeat what the entry     *)
(* point has already asserted                                              *)
Engine(c) ==
    IF c.op = "sdist" THEN fft_sdist(c.Q.data, c.S.data)
    ELSE IF c.op = "mdist" THEN fft_mdist(c.Q.data, c.S.data)
    ELSE fft_zdist(c.Q.data, c.S.data, c.epsilon)

Transform ==
    /\ pc = "validated"
    /\ UsesTransform(call.mode)
    /\ events' = Append(events, "fft")
    /\ LET r == Engine(call)
       IN  IF r.len < 0
           THEN pc' = "raised" /\ err' = "ValueError" /\ Z' = Z
           ELSE pc' = "computed" /\ err' = err /\ Z' = ToSeq(r)
    /\ UNCHANGED <<call, Qk, kernelVars, errLog, shuffleVars, scanVars>>

(* else: stream = cuda.stream(); Z = cp.empty(len(S)-len(Q)+1, dtype)      *)
Allocate ==
    /\ pc = "validated"
    /\ ~UsesTransform(call.mode)
    /\ pc' = "allocated"
    /\ Z' = [k \in 1..(n_(call) - m_(call) + 1) |-> Unwritten]
    /\ events' = events \o <<"stream", "alloc">>
    /\ UNCHANGED <<call, err, Qk, kernelVars, errLog, shuffleVars, scanVars>>

----------------------------------------------------------------------------
(* Kernel launch kernel[grid, block, stream](Q, S, Z[, epsilon])           *)

(* the query argument of the launch: Q, mnorm(Q), znorm(Q, epsilon)        *)
KernelQuery(c) ==
    IF c.op = "sdist" THEN c.Q.data
    ELSE IF c.op = "mdist" THEN mnorm(c.Q.data)
    ELSE znorm(c.Q.data, c.epsilon)

(* warpDim = blockDim.x // 32; warpIdx = threadIdx.x // 32 *)
warpDim(b) == b \div WarpSize
WarpsOf(g, b) == (0..(g - 1)) \X {tid \div WarpSize : tid \in 0..(b - 1)}

(* lower = blockIdx.x*warpDim + warpIdx;  stride = gridDim.x*warpDim *)
lower(w, b) == w[1] * warpDim(b) + w[2]

(* faulty variant, for sensitivity runs: the stride counts blocks, not     *)
(* warps                                                                   *)
strideGridOnly(g, b) == g

stride(g, b) == g * warpDim(b)

(* range(lower, S.shape[0]-Q.shape[0]+1, stride): the exclusive stop *)
upper(c) == n_(c) - m_(c) + 1

(* if laneIdx == 0: out[position] = accum *)
WritingLanes == {l \in Lanes : l = 0}

(* the warps that enter the position loop at all *)
Entering(g, b, c) == {w \in WarpsOf(g, b) : lower(w, b) < upper(c)}

StartKernel(g, b) ==
    /\ gridDim' = g
    /\ blockDim' = b
    /\ position' = [w \in Entering(g, b, call) |-> lower(w, b)]
    /\ Qk' = KernelQuery(call)
    /\ wlog' = {} /\ readS' = {} /\ readQ' = {}

Launch ==
    /\ pc = "allocated"
    /\ pc' = "launched"
    /\ StartKernel(LaunchGrid, LaunchBlock)
    /\ events' = Append(events, "launch")
    /\ UNCHANGED <<call, err, Z, errLog, shuffleVars, scanVars>>

(* one iteration of a warp's position loop; the 32 lanes run in lockstep   *)
LaneIndices(m) == UNION {RangeSet(l, m) : l \in Lanes}

StoresTo(k) == Cardinality({<<e[2], e[4]>> : e \in {f \in wlog : f[1] = k}})

(* for position in range(lower, upper, stride): the warp has an iteration  *)
(* left and moves on to the next                                           *)
Advance(w) ==
    /\ pc = "launched"
    /\ w \in DOMAIN position
    /\ position[w] < upper(call)
    /\ position' = [position EXCEPT ![w] = position[w] + stride(gridDim, blockDim)]

WarpStep(w) ==
    /\ Advance(w)
    /\ LET p == position[w]
           lanes == kernel_lanes(call.op, Qk, call.S.data, p, call.epsilon)
       IN  /\ \E l \in WritingLanes :
                 Z' = [k \in DOMAIN Z |-> IF k = p + 1 THEN lanes[l] ELSE Z[k]]
           /\ wlog' = wlog \cup {<<p, lower(w, blockDim), l, StoresTo(p) + 1>> : l \in WritingLanes}
           /\ readS' = readS \cup {p + i : i \in LaneIndices(Len(Qk))}
           /\ readQ' = readQ \cup LaneIndices(Len(Qk))
    /\ UNCHANGED <<pc, call, err, Qk, events, gridDim, blockDim, errLog, shuffleVars, scanVars>>

KernelDone == \A w \in DOMAIN position : position[w] >= upper(call)

(* faulty variant, for sensitivity runs: the wait returns while warps     *)
(* are still running                                                       *)
SynchronizeEarly ==
    /\ pc = "launched"
    /\ pc' = "computed"
    /\ events' = Append(events, "sync")
    /\ UNCHANGED <<call, err, Qk, Z, kernelVars, errLog, shuffleVars, scanVars>>

(* stream.synchronize(): returns once the kernel has run to completion *)
Synchronize ==
    /\ pc = "launched"
    /\ KernelDone
    /\ pc' = "computed"
    /\ events' = Append(events, "sync")
    /\ UNCHANGED <<call, err, Qk, Z, kernelVars, errLog, shuffleVars, scanVars>>

(* return Z *)
Return ==
    /\ pc = "computed"
    /\ pc' = "returned"
    /\ events' = Append(events, "return")
    /\ UNCHANGED <<call, err, Qk, Z, kernelVars, errLog, shuffleVars, scanVars>>

Next ==
    \/ \E c \in Calls : Call(c)
    \/ Reject
    \/ Accept
    \/ Transform
    \/ Allocate
    \/ Launch
    \/ \E w \in DOMAIN position : WarpStep(w)
    \/ Synchronize
    \/ Return

Spec == Init /\ [][Next]_vars

----------------------------------------------------------------------------
(* A caller that makes one call after another and keeps the errors it got  *)

SessionCalls ==
    {c \in ContractCalls : c.mode \in {"fft", "naive"} /\ Cardinality(Violations(c)) <= 1}

Finished == pc \in {"returned", "raised"}

(* the caller has seen the call end and is free to make the next one *)
CallAgain ==
    /\ Finished
    /\ pc' = "idle"
    /\ Begin(NoCall)
    /\ UNCHANGED errLog

NextSession ==
    \/ \E c \in SessionCalls : Call(c)
    \/ Reject
    \/ Accept
    \/ Transform
    \/ Allocate
    \/ Launch
    \/ \E w \in DOMAIN position : WarpStep(w)
    \/ Synchronize
    \/ Return
    \/ CallAgain

SpecSession == Init /\ [][NextSession]_vars

----------------------------------------------------------------------------
(* The direct kernels under any launch configuration: gridDim in           *)
(* 1..MaxGrid, blockDim a multiple of 32 up to 32*MaxWarps                 *)

MaxGrid == 2
MaxWarps == 2

KernelCalls ==
    {CallOf(o, Vec(<<I(0), I(1)>>), Vec(s), "naive", I(1)) :
        o \in Ops, s \in {<<I(1), I(0)>>, <<I(0), I(1), I(1), I(0), I(0), I(1), I(1)>>}}
    \cup {c \in LongCalls : c.mode # "fft"}
    \cup {Scenario}

LaunchWith(g, b) ==
    /\ pc = "allocated"
    /\ pc' = "launched"
    /\ StartKernel(g, b)
    /\ events' = Append(events, "launch")
    /\ UNCHANGED <<call, err, Z, errLog, shuffleVars, scanVars>>

NextKernel ==
    \/ \E c \in KernelCalls : Call(c)
    \/ Accept
    \/ Allocate
    \/ \E g \in 1..MaxGrid, j \in 1..MaxWarps : LaunchWith(g, j * WarpSize)
    \/ \E w \in DOMAIN position : WarpStep(w)
    \/ Synchronize
    \/ Return

(* the device runs every warp of a launched kernel: a warp whose loop has  *)
(* an iteration left gets to execute it.  Only WarpStep(w) changes         *)
(* position, and it does so as Advance(w) says.                            *)
SpecKernel ==
    /\ Init
    /\ [][NextKernel]_vars
    /\ \A w \in (0..(MaxGrid - 1)) \X (0..(MaxWarps - 1)) : WF_position(Advance(w))

----------------------------------------------------------------------------
(* One warp's shuffle reduction, round by round:                           *)
(*   for delta in [16, 8, 4, 2, 1]: accum += cuda.shfl_down_sync(..)       *)
(*   for delta in [16, 8, 4, 2, 1]: accum += cuda.shfl_xor_sync(..)        *)

UnitPartial(j) == [l \in Lanes |-> IF l = j THEN I(1) ELSE I(0)]

(* the accumulators the lane loops leave: of queries shorter and longer    *)
(* than a warp, and one nonzero lane at every position                     *)
Partials ==
    {UnitPartial(j) : j \in Lanes}
    \cup {[l \in Lanes |-> I(l + 1)], [l \in Lanes |-> I(0)]}
    \cup {sdistPartial(c.Q.data, c.S.data, p) :
             c \in {Scenario} \cup LongCalls, p \in 0..1}
    \cup {windowPartial(c.Q.data, c.S.data, p) : c \in {Scenario} \cup LongCalls, p \in 0..1}
    \cup {windowSqPartial(c.Q.data, c.S.data, p) : c \in {Scenario} \cup LongCalls, p \in 0..1}

InitShuffle ==
    /\ Idle
    /\ NoScan
    /\ partial \in Partials
    /\ accum = partial
    /\ shfl \in {"down", "xor"}
    /\ round = 0

ShflDown ==
    /\ shfl = "down"
    /\ round < Len(Deltas)
    /\ accum' = DownRound(accum, Deltas[round + 1])
    /\ round' = round + 1
    /\ UNCHANGED <<pc, call, err, Qk, Z, events, kernelVars, errLog, partial, shfl, scanVars>>

ShflXor ==
    /\ shfl = "xor"
    /\ round < Len(Deltas)
    /\ accum' = XorRound(accum, Deltas[round + 1])
    /\ round' = round + 1
    /\ UNCHANGED <<pc, call, err, Qk, Z, events, kernelVars, errLog, partial, shfl, scanVars>>

NextShuffle == ShflDown \/ ShflXor

SpecShuffle == InitShuffle /\ [][NextShuffle]_vars

----------------------------------------------------------------------------
(* cumsum(x, Kahan) step by step, in floating point.  The refinement acts  *)
(* on rounding residue only, so in this part a number is a float of        *)
(* Precision significant bits (round to nearest, ties to even, exponent    *)
(* unbounded), held as the rational it equals.                             *)

Precision == 2
MaxLenScan == 3
MaxKahan == 2

RECURSIVE Pow2(_)
Pow2(k) == IF k = 0 THEN 1 ELSE 2 * Pow2(k - 1)

Exponents == -12..12

(* r / 2^e *)
ScaleBy(r, e) ==
    IF e >= 0 THEN Rat(r[1], r[2] * Pow2(e)) ELSE Rat(r[1] * Pow2(-e), r[2])

RAbs(r) == <<Abs(r[1]), r[2]>>

FRound(r) ==
    IF r[1] = 0 THEN r
    ELSE LET a == RAbs(r)
             e == CHOOSE k \in Exponents :
                      /\ RLe(I(Pow2(Precision - 1)), ScaleBy(a, k))
                      /\ RLt(ScaleBy(a, k), I(Pow2(Precision)))
             q == ScaleBy(a, e)
             f == q[1] \div q[2]
             rem == RSub(q, I(f))
             mant == IF RLt(rem, <<1, 2>>) THEN f
                     ELSE IF RLt(<<1, 2>>, rem) THEN f + 1
                     ELSE IF f % 2 = 0 THEN f ELSE f + 1
             v == ScaleBy(I(mant), -e)
         IN  IF r[1] < 0 THEN RSub(I(0), v) ELSE v

FAdd(a, b) == FRound(RAdd(a, b))
FSub(a, b) == FRound(RSub(a, b))

(* cp.cumsum(x)[:i], summed left to right *)
RECURSIVE RunningSum(_, _)
RunningSum(x, i) ==
    IF i = 0 THEN <<>>
    ELSE IF i = 1 THEN <<x[1]>>
    ELSE LET s == RunningSum(x, i - 1) IN Append(s, FAdd(s[i - 1], x[i]))

(* y = cp.empty(len(x)+1); y[0] = 0; cp.cumsum(x, out=y[1:]) *)
ScanOf(x) == <<I(0)>> \o RunningSum(x, Len(x))

(* cp.diff(y) *)
Diff(y) == [i \in 1..(Len(y) - 1) |-> FSub(y[i + 1], y[i])]

(* r = x-cp.diff(y) *)
Residual(x, y) == [i \in 1..Len(x) |-> FSub(x[i], Diff(y)[i])]

(* cp.max(cp.abs(r)) of a non-empty r *)
MaxAbs(r) ==
    CHOOSE v \in {RAbs(r[i]) : i \in 1..Len(r)} : \A i \in 1..Len(r) : RLe(RAbs(r[i]), v)

(* y += <what the recursive call returned> *)
AddInto(y, c) == [i \in 1..Len(y) |-> FAdd(y[i], c[i])]

Frame(x, K) == [x |-> x, Kahan |-> K, y |-> <<>>, at |-> "entry"]
Top == stack[Len(stack)]
SetTop(f) == [stack EXCEPT ![Len(stack)] = f]

FVals == {I(0), <<1, 4>>, I(1), I(4)}
ScanArgs ==
    {[x |-> x, Kahan |-> k] :
        x \in UNION {[1..j -> FVals] : j \in 0..MaxLenScan}, k \in (-1)..MaxKahan}

InitScan ==
    /\ Idle
    /\ NoShuffle
    /\ scanArg \in ScanArgs
    /\ stack = <<Frame(scanArg.x, scanArg.Kahan)>>
    /\ ret = <<>>
    /\ scanErr = ""
    /\ ncalls = 0

nonScanVars == <<pc, call, err, Qk, Z, events, kernelVars, errLog, shuffleVars>>

(* assert(isinstance(Kahan, int) and Kahan >= 0), then the plain scan *)
ScanSum ==
    /\ stack # <<>>
    /\ Top.at = "entry"
    /\ IF Top.Kahan < 0
       THEN stack' = <<>> /\ scanErr' = "AssertionError"
       ELSE /\ stack' = SetTop([Top EXCEPT !.y = ScanOf(Top.x), !.at = "scanned"])
            /\ scanErr' = scanErr
    /\ UNCHANGED <<scanArg, ret, ncalls, nonScanVars>>

(* if Kahan: r = ...; if(cp.max(cp.abs(r))): ... cumsum(r, Kahan-1) *)
ScanRefine ==
    /\ stack # <<>>
    /\ Top.at = "scanned"
    /\ Top.Kahan # 0
    /\ Len(Top.x) > 0
    /\ MaxAbs(Residual(Top.x, Top.y)) # I(0)
    /\ stack' = Append(SetTop([Top EXCEPT !.at = "waiting"]),
                       Frame(Residual(Top.x, Top.y), Top.Kahan - 1))
    /\ ncalls' = ncalls + 1
    /\ UNCHANGED <<scanArg, ret, scanErr, nonScanVars>>

(* if Kahan: ... cp.max of an array of size 0 raises ValueError *)
ScanFail ==
    /\ stack # <<>>
    /\ Top.at = "scanned"
    /\ Top.Kahan # 0
    /\ Len(Top.x) = 0
    /\ stack' = <<>>
    /\ scanErr' = "ValueError"
    /\ UNCHANGED <<scanArg, ret, ncalls, nonScanVars>>

(* Kahan is 0, or the residual is zero everywhere: no recursive call *)
ScanSkip ==
    /\ stack # <<>>
    /\ Top.at = "scanned"
    /\ \/ Top.Kahan = 0
       \/ Len(Top.x) > 0 /\ MaxAbs(Residual(Top.x, Top.y)) = I(0)
    /\ stack' = SetTop([Top EXCEPT !.at = "done"])
    /\ UNCHANGED <<scanArg, ret, scanErr, ncalls, nonScanVars>>

(* return y; the caller, if there is one, adds it into its own y and       *)
(* is itself ready to return                                               *)
ScanReturn ==
    /\ stack # <<>>
    /\ Top.at = "done"
    /\ IF Len(stack) = 1
       THEN stack' = <<>> /\ ret' = Top.y
       ELSE LET caller == stack[Len(stack) - 1]
            IN  /\ stack' = Append(SubSeq(stack, 1, Len(stack) - 2),
                                   [caller EXCEPT !.y = AddInto(caller.y, Top.y),
                                                  !.at = "done"])
                /\ ret' = ret
    /\ UNCHANGED <<scanArg, scanErr, ncalls, nonScanVars>>

NextScan == ScanSum \/ ScanRefine \/ ScanFail \/ ScanSkip \/ ScanReturn

SpecScan == InitScan /\ [][NextScan]_vars

----------------------------------------------------------------------------
(* The input contracts, as the interface states them *)

ValidCall(c) == c.op \in Ops /\ m_(c) >= 1 /\ Violations(c) = {}

(* sum over i in 0..m-1 of (Q[i] - S[k+i])^2 *)
SqDist(Q, S, k) == Sum([i \in 1..Len(Q) |-> RSq(RSub(Q[i], S[k + i]))])

----------------------------------------------------------------------------
(* C1: every valid call (m >= 1, n >= m, same dtype, rank 1) of sdist,     *)
(* mdist or zdist returns an array of exactly n-m+1 entries, in "fft" mode *)
(* as in direct mode, m = 1 and m = n included: a valid call never raises, *)
(* and what it returns has n-m+1 entries.                                  *)
C1_OutputLength ==
    ValidCall(call) =>
        /\ pc # "raised"
        /\ pc = "returned" => Len(Z) = n_(call) - m_(call) + 1

----------------------------------------------------------------------------
(* C2: in direct mode sdist(Q, S)[k] = sum_i (Q[i] - S[k+i])^2 for every k *)
(* in 0..n-m, so it is 0 where the window equals the query; for            *)
(* Q = [1,2,3], S = [1,2,3,1,2,3,9,9,9] entries 0 and 3 are 0 and entry 6  *)
(* is 149.                                                                 *)
C2_DirectSdist ==
    (pc = "returned" /\ call.op = "sdist" /\ call.mode # "fft") =>
        /\ \A k \in 0..(n_(call) - m_(call)) :
              /\ Z[k + 1] = SqDist(call.Q.data, call.S.data, k)
              /\ Window(call.S.data, k, m_(call)) = call.Q.data => Z[k + 1] = I(0)
        /\ call = Scenario => (Z[1] = I(0) /\ Z[4] = I(0) /\ Z[7] = I(149))

C2_Witness ==
    /\ pc = "returned" /\ call = Scenario
    /\ Len(Z) = 7 /\ Z[7] = I(149) /\ Z[4] = I(0)

----------------------------------------------------------------------------
(* what each path computes for a call, as a sequence (<<>> if it raises)   *)
DirectResult(c) ==
    [k \in 1..(n_(c) - m_(c) + 1) |->
        kernel_lanes(c.op, KernelQuery(c), c.S.data, k - 1, c.epsilon)[0]]

TransformResult(c) == ToSeq(Engine(c))

(* C3: for every valid input (zdist: any epsilon > 0, any Query with       *)
(* standard deviation > 0, also one below epsilon) the transform-mode and  *)
(* the direct-mode result of the same operation are equal entry by entry   *)
(* in exact arithmetic: what a call returns in one mode is what the other  *)
(* mode computes, whenever the other mode returns an array at all.         *)
C3_CrossPath ==
    (pc = "returned" /\ ValidCall(call) /\ Engine(call).len >= 0) =>
        Z = (IF call.mode = "fft" THEN DirectResult(call) ELSE TransformResult(call))

----------------------------------------------------------------------------
(* C4: every entry of the zdist output lies in [0, 2m]                     *)
C4_RangeTwoM ==
    (pc = "returned" /\ call.op = "zdist") =>
        \A k \in 1..Len(Z) : RLe(I(0), Z[k]) /\ RLe(Z[k], I(2 * m_(call)))

(* C4 as amended: every entry of the zdist output lies in [0, 4m], in      *)
(* either mode                                                             *)
C4_RangeFourM ==
    (pc = "returned" /\ call.op = "zdist") =>
        \A k \in 1..Len(Z) : RLe(I(0), Z[k]) /\ RLe(Z[k], I(4 * m_(call)))

(* the bound 4m is attained, above 2m, in both modes *)
C4_Witness ==
    /\ pc = "returned" /\ call.op = "zdist" /\ call.mode = "fft"
    /\ \E k \in 1..Len(Z) : Z[k] = I(4 * m_(call))

----------------------------------------------------------------------------
(* C5: if the Stream window at k is constant, zdist(Q, S, mode, eps)[k] is *)
(* exactly m, for every valid Query, every epsilon > 0 and either mode     *)
IsConstant(x) == \A i \in 1..Len(x) : x[i] = x[1]

C5_ConstantWindow ==
    (pc = "returned" /\ call.op = "zdist") =>
        \A k \in 1..Len(Z) :
            IsConstant(Window(call.S.data, k - 1, m_(call))) => Z[k] = I(m_(call))

----------------------------------------------------------------------------
----------------------------------------------------------------------------
----------------------------------------------------------------------------
(* C7: the four input-contract violations (Type-Mismatch, Shape-Violation, *)
(* Degenerate-Query, Invalid-Epsilon) surface as distinct error outcomes:  *)
(* two rejected calls that break different single contracts never signal   *)
(* the same error, so the error alone tells the caller which contract was  *)
(* broken.                                                                 *)
C7_DistinctErrors ==
    \A a \in errLog, b \in errLog :
        (Cardinality(a[2]) = 1 /\ Cardinality(b[2]) = 1 /\ a[2] # b[2]) => a[1] # b[1]

----------------------------------------------------------------------------
(* C9: in each direct kernel, for every gridDim >= 1 and every blockDim    *)
(* that is a positive multiple of 32, under every interleaving of the      *)
(* warps: each output index k in 0..n-m is written exactly once, by lane 0 *)
(* of the one warp whose index block*warpsPerBlock + warpInBlock is        *)
(* congruent to k modulo gridDim*warpsPerBlock; no index outside 0..n-m is *)
(* written, no Stream index outside 0..n-1 and no Query index outside      *)
(* 0..m-1 is read; and every warp's position loop terminates.              *)
C9_Writes ==
    pc \in {"launched", "computed", "returned"} =>
        LET total == gridDim * (blockDim \div 32)
            K == n_(call) - m_(call) + 1
        IN  /\ \A e \in wlog :
                  /\ e[1] \in 0..(K - 1)
                  /\ e[3] = 0
                  /\ e[4] = 1
                  /\ e[2] \in 0..(total - 1)
                  /\ e[2] % total = e[1] % total
            /\ \A e \in wlog, f \in wlog : e[1] = f[1] => e = f
            /\ readS \subseteq 0..(n_(call) - 1)
            /\ readQ \subseteq 0..(m_(call) - 1)
            /\ pc \in {"computed", "returned"} =>
                  \A k \in 0..(K - 1) :
                      /\ \E e \in wlog : e[1] = k
                      /\ Z[k + 1] # Unwritten

C9_OneWriterPerIndex == []C9_Writes /\ ((pc = "launched") ~> KernelDone)

(* four warps share six positions: some warp has written twice *)
C9_Witness ==
    /\ pc = "computed" /\ gridDim = 2 /\ blockDim = 64
    /\ Cardinality(wlog) = 6
    /\ \E e \in wlog, f \in wlog : e[2] = f[2] /\ e[1] # f[1]
    /\ call.op = "zdist"

----------------------------------------------------------------------------
(* C10: within one warp of 32 lanes with partial values a[0..31], after    *)
(* the five shuffle-down rounds with offsets 16, 8, 4, 2, 1 (a lane whose  *)
(* source would be >= 32 receiving its own value) lane 0 holds the sum of  *)
(* all 32 partials; after the five shuffle-xor rounds every lane holds it; *)
(* for every query length, also m < 32 where lanes >= m contribute 0.      *)
C10_WarpSum ==
    round = Len(Deltas) =>
        /\ shfl = "down" => (accum[0] = SumOver(partial, 0, WarpSize - 1)
                              /\ accum = ReduceDown(partial))
        /\ shfl = "xor" => ((\A l \in Lanes : accum[l] = SumOver(partial, 0, WarpSize - 1))
                              /\ accum = ReduceXor(partial))

(* a query of 3 elements: lanes 3..31 contribute 0 *)
C10_Witness ==
    /\ round = 5 /\ shfl = "down"
    /\ partial = sdistPartial(Scenario.Q.data, Scenario.S.data, 1)
    /\ \A l \in 3..31 : partial[l] = I(0)
    /\ accum[0] = I(6)

(* C11: cumsum(x, K) with an integer K >= 0 never raises, makes at most K  *)
(* recursive calls, each one level deeper with the depth lowered by        *)
(* exactly 1, calls again only while the depth is nonzero and the residual *)
(* is not zero everywhere, and returns an array of length len(x)+1 whose   *)
(* entry 0 is 0.                                                           *)
C11_ScanContract ==
    scanArg.Kahan >= 0 =>
        /\ scanErr = ""
        /\ ncalls <= scanArg.Kahan
        /\ Len(stack) <= ncalls + 1
        /\ \A i \in 1..Len(stack) : stack[i].Kahan = scanArg.Kahan - (i - 1)
        /\ \A i \in 1..Len(stack) :
              stack[i].at = "waiting" =>
                  /\ stack[i].Kahan > 0
                  /\ \E j \in 1..Len(stack[i].x) :
                        Residual(stack[i].x, ScanOf(stack[i].x))[j] # I(0)
        /\ stack = <<>> => Len(ret) = Len(scanArg.x) + 1 /\ ret[1] = I(0)

(* C12: in a call that takes the direct path (sdist, mdist or zdist) the   *)
(* events happen in the order: fresh stream and output buffer of length    *)
(* n-m+1, one kernel launch, synchronisation of the stream, return.  The   *)
(* synchronisation completes only when the kernel has finished, so from    *)
(* then on, and at return in particular, no output entry is unwritten.     *)
DirectOrder == <<"stream", "alloc", "launch", "sync", "return">>

C12_SyncBeforeReturn ==
    (pc \in {"allocated", "launched", "computed", "returned"}
        /\ ~UsesTransform(call.mode)) =>
        /\ events = SubSeq(DirectOrder, 1, Len(events))
        /\ Len(Z) = n_(call) - m_(call) + 1
        /\ pc \in {"computed", "returned"} =>
              /\ KernelDone
              /\ \A k \in DOMAIN Z : Z[k] # Unwritten
        /\ pc = "returned" => events = DirectOrder

C12_Witness ==
    /\ pc = "returned"
    /\ call.op = "zdist"
    /\ call.mode = "naive"
    /\ events = DirectOrder
    /\ Len(Z) = 2
    /\ \A k \in DOMAIN Z : Z[k] # Unwritten

(* C13: the mode is never a reason to reject a call.  A call that passes   *)
(* validation runs the transform engine exactly when its mode is "fft"     *)
(* and the direct kernel for every other mode value, known or not; a call  *)
(* that returns has run exactly one of the two paths.                      *)
C13_ModeSelectsPath ==
    /\ (pc = "raised" /\ Validates(call)) =>
          (call.mode = "fft" /\ err = "ValueError" /\ events = <<"fft">>)
    /\ pc \in {"allocated", "launched", "computed", "returned"} =>
          /\ ("fft" \in {events[i] : i \in DOMAIN events}) <=> (call.mode = "fft")
          /\ ("launch" \in {events[i] : i \in DOMAIN events}) => (call.mode # "fft")
    /\ pc = "returned" =>
          IF call.mode = "fft" THEN events = <<"fft", "return">>
          ELSE events = DirectOrder

C13_Witness ==
    /\ pc = "returned"
    /\ call.mode = "transform"
    /\ call.op = "mdist"
    /\ events = DirectOrder
    /\ Len(Z) = 2

====
